---- MODULE Spec2Model ----
(***************************************************************************)
(* Model of claude-context-keeper (cck): the marker-delimited merge of     *)
(* cli.py, the `sync` command and the polling `watch` loop.                *)
(*                                                                         *)
(* Text is a sequence of one-character strings.  The two marker literals   *)
(* imported from the generator are opaque tokens "<S>" and "<E>".          *)
(***************************************************************************)
EXTENDS Integers, Sequences, FiniteSets, TLC

\* ------------------------------------------------------------------ bounds
MaxDocLen == 4
MaxSyncs == 2
MaxTime == 3
MaxMtime == 2
MaxEntries == 2
MaxRows == 3
MaxStamp == 2
MaxLimit == 2

\* ------------------------------------------------------------- text model
AUTO_START == << "<S>" >>
AUTO_END == << "<E>" >>

\* The characters str.rstrip() / str.lstrip() remove when called with no argument.
IsSpace(c) == c \in {" ", "\n", "\t", "\r"}

\* str.rstrip()
RECURSIVE rstrip(_)
rstrip(s) ==
    IF s = << >> THEN << >>
    ELSE IF IsSpace(s[Len(s)]) THEN rstrip(SubSeq(s, 1, Len(s) - 1))
    ELSE s

\* str.lstrip()
RECURSIVE lstrip(_)
lstrip(s) ==
    IF s = << >> THEN << >>
    ELSE IF IsSpace(Head(s)) THEN lstrip(Tail(s))
    ELSE s

\* str.find(sub): the lowest 0-based index where sub occurs, -1 when it does not.
OccursAt(s, sub, i) == i + Len(sub) <= Len(s) /\ SubSeq(s, i + 1, i + Len(sub)) = sub

find(s, sub) ==
    LET hits == {i \in 0..Len(s) : OccursAt(s, sub, i)}
    IN  IF hits = {} THEN -1 ELSE CHOOSE i \in hits : \A j \in hits : i <= j

\* sep.join(parts)
RECURSIVE join(_, _)
join(sep, parts) ==
    IF parts = << >> THEN << >>
    ELSE IF Len(parts) = 1 THEN parts[1]
    ELSE parts[1] \o sep \o join(sep, Tail(parts))

\* The rule the legacy branch puts between the old document and the new region.
LegacyRule_one_newline == << "\n", "-", "-", "-", "\n" >>

LegacyRule == << "\n", "\n", "-", "-", "-", "\n", "\n" >>

\* user_before = existing_content[:start_idx].rstrip()
user_before_short(existing_content) ==
    rstrip(SubSeq(existing_content, 1, find(existing_content, AUTO_START) - 1))

user_before_keeps_space(existing_content) ==
    SubSeq(existing_content, 1, find(existing_content, AUTO_START))

user_before(existing_content) ==
    rstrip(SubSeq(existing_content, 1, find(existing_content, AUTO_START)))

\* user_after = existing_content[end_idx + len(AUTO_END):].lstrip()
user_after_from_start(existing_content) ==
    lstrip(SubSeq(existing_content,
                  find(existing_content, AUTO_START) + Len(AUTO_START) + 1,
                  Len(existing_content)))

user_after(existing_content) ==
    lstrip(SubSeq(existing_content,
                  find(existing_content, AUTO_END) + Len(AUTO_END) + 1,
                  Len(existing_content)))

merge_with_existing(existing_content, new_auto_content) ==
    IF existing_content = << >> THEN new_auto_content
    ELSE
        LET start_idx == find(existing_content, AUTO_START)
            end_idx == find(existing_content, AUTO_END)
        IN  IF start_idx = -1 \/ end_idx = -1
            THEN rstrip(existing_content) \o LegacyRule \o new_auto_content
            ELSE
                LET before == user_before(existing_content)
                    after == user_after(existing_content)
                    parts == (IF before # << >> THEN << before, << >> >> ELSE << >>)
                             \o << new_auto_content >>
                             \o (IF after # << >> THEN << << >>, after >> ELSE << >>)
                IN  join(<< "\n" >>, parts)

\* ------------------------------------------------------------------ inputs
DocChars == {"<S>", "<E>", "\n", "a"}
Docs == UNION {[1..k -> DocChars] : k \in 0..MaxDocLen}

\* Generated regions handed to the merge: the generator's form (the marker pair
\* around the body), the same padded with newlines, and regions that break it.
Regions ==
    { << "<S>", "x", "<E>" >>,
      << "<S>", "y", "<E>" >>,
      << "\n", "<S>", "x", "<E>", "\n" >>,
      << "x" >>,
      << "x", "<E>", "y" >> }

\* What generate_claude_md returns: the body between the marker pair.
GeneratedRegions == { << "<S>", "x", "<E>" >>, << "<S>", "y", "<E>" >> }

\* The files under the watched root that should_ignore lets through: a project
\* file and the output document, which by default lies under the root.
OutputPath == "CLAUDE.md"
UserPaths == {"a.py"}
Paths == UserPaths \cup {OutputPath}

\* The order in which rglob yields paths, over every path a snapshot may hold.
WalkOrder ==
    << "CLAUDE.md", "a.py", "b.py", "c.py", "venv/lib.py", "myvenv",
       ".claude/cck_history.sqlite" >>
SnapshotPaths == {"CLAUDE.md", "a.py", "b.py", "c.py"}

\* The files of the tree a scan on its own walks: two plain files, a file in
\* a directory named venv, a file whose name ends in venv, the database.
ScanPaths == {"CLAUDE.md", "a.py", "venv/lib.py", "myvenv", ".claude/cck_history.sqlite"}

\* Path.parts of a path relative to the root.  A name is a sequence of pieces,
\* so that the end of a path string can be compared with a pattern.
parts(rel_path) ==
    CASE rel_path = "venv/lib.py" -> << << "venv" >>, << "lib.py" >> >>
      [] rel_path = "src/main.py" -> << << "src" >>, << "main.py" >> >>
      [] rel_path = ".venv/lib/main.py" -> << << ".", "venv" >>, << "lib" >>, << "main.py" >> >>
      [] rel_path = ".venv/bin/main.py" -> << << ".", "venv" >>, << "bin" >>, << "main.py" >> >>
      [] rel_path = "node_modules/pkg/main.py" ->
            << << "node_modules" >>, << "pkg" >>, << "main.py" >> >>
      [] rel_path = "build/app.py" -> << << "build" >>, << "app.py" >> >>
      [] rel_path = "myvenv" -> << << "my", "venv" >> >>
      [] rel_path = ".claude/cck_history.sqlite" ->
            << << ".claude" >>, << "cck_history.sqlite" >> >>
      [] OTHER -> << << rel_path >> >>

\* Path(path).resolve(): the parts of the root below the anchor "/".
PlainRoot == << << "home" >>, << "proj" >> >>
Roots == { PlainRoot, << << "home" >>, << "venv" >>, << "proj" >> >> }

\* Documents a watch session may find on disk when it starts.
WatchDocs == { << "a" >>, << "a", "<S>", "a", "<E>", "a" >> }

\* ------------------------------------------------------------------- state
VARIABLES
    document,         \* text of the output document on disk (<< >> when absent)
    mtimes,           \* path -> st_mtime of the file on disk, 0 when it does not exist
    now,              \* the clock: datetime.now() and the mtime a write gives
    doc0,             \* sync: the document before the first sync
    prev,             \* sync: the document before the latest sync
    regions,          \* sync: the generated regions of the syncs so far, oldest first
    nsyncs,           \* sync: completed syncs
    pc,               \* watch: the statement the loop is at
    with_history,     \* watch: the --with-history flag (db_conn is not None)
    last_states,      \* watch: the stored snapshot, path -> mtime
    current_states,   \* watch: the snapshot of this tick
    changes,          \* watch: the events of this tick, << event_type, path >>
    logged,           \* watch: how many of changes are in the history database
    new_content,      \* watch: the generated region of this tick
    existing_content, \* watch: the document as read in this tick
    final_content,    \* watch: the merged document of this tick
    file_changes,     \* history: rows of table file_changes
    last_id,          \* history: the AUTOINCREMENT counter of file_changes
    operations,       \* history: rows of table operations
    last_op_id,       \* history: the AUTOINCREMENT counter of operations
    issued,           \* history: every << table, id >> an INSERT has been given
    result,           \* history: the latest call of the store's API and what it returned
    project_path,     \* watch: the parts of the resolved root
    scan_error,       \* watch: the entry at which the latest walk raised, or "none"
    config_file,      \* config: the config file of the project
    config,           \* config: what load_config returned
    dry_run,          \* sync: the --dry-run flag of the latest command
    console,          \* sync: the preview the latest command printed
    rglob_order,      \* scanner: the order in which path.rglob yields the files
    context           \* scanner: what scan_project has filled in

syncVars == << doc0, prev, regions, nsyncs >>
tickVars == << current_states, changes, logged, new_content, existing_content, final_content >>
storeVars == << file_changes, last_id, operations, last_op_id, issued >>
configVars == << config_file, config >>
previewVars == << dry_run, console >>
scannerVars == << rglob_order, context >>
otherVars == << result, project_path, scan_error, configVars, previewVars,
       scannerVars >>
vars == << document, mtimes, now, syncVars, pc, with_history, last_states, tickVars, storeVars,
          otherVars >>

\* The generated region of the latest sync.
region == IF regions = << >> THEN << >> ELSE regions[Len(regions)]

\* output_path.exists()
doc_exists == mtimes[OutputPath] # 0

NoFiles == [p \in Paths |-> 0]

\* A history database as init_db creates it, and no call of its API so far.
EmptyStore ==
    /\ file_changes = << >>
    /\ last_id = 0
    /\ operations = << >>
    /\ last_op_id = 0
    /\ issued = {}

Call(name, arg, rows) == [call |-> name, arg |-> arg, rows |-> rows]
NoCall == result = Call("none", 0, << >>)
EmptyStates == [p \in {} |-> 0]
NoScan == project_path = PlainRoot /\ scan_error = "none"

\* ------------------------------------------------------------ configuration
\* A YAML/Python value: kind is the Python type, items the entries of a dict,
\* value the literal of anything else.
Dict(entries) == [kind |-> "dict", items |-> entries, value |-> ""]
Leaf(type, literal) == [kind |-> type, items |-> << >>, value |-> literal]

DEFAULT_CONFIG ==
    Dict("version" :> Leaf("int", "1")
      @@ "watch" :> Dict("enabled" :> Leaf("bool", "False")
                      @@ "paths" :> Leaf("list", "['.']")
                      @@ "exclude" :> Leaf("list", "default exclude"))
      @@ "history" :> Dict("enabled" :> Leaf("bool", "False")
                        @@ "db_path" :> Leaf("str", ".claude/cck_history.sqlite")
                        @@ "max_entries" :> Leaf("int", "50")
                        @@ "track" :> Dict("file_changes" :> Leaf("bool", "True")
                                        @@ "tool_operations" :> Leaf("bool", "False")))
      @@ "reminder" :> Dict("source" :> Leaf("str", "auto")
                         @@ "file_path" :> Leaf("str", ".claude/reminder.md")
                         @@ "history_limit" :> Leaf("int", "20")
                         @@ "format" :> Leaf("str", "compact")))

RECURSIVE deep_merge(_, _)
deep_merge(base, override) ==
    Dict([key \in DOMAIN base.items \cup DOMAIN override.items |->
            IF key \notin DOMAIN override.items THEN base.items[key]
            ELSE LET value == override.items[key]
                 IN  IF /\ key \in DOMAIN base.items
                        /\ base.items[key].kind = "dict"
                        /\ value.kind = "dict"
                     THEN deep_merge(base.items[key], value)
                     ELSE value])

\* bool(value) is False: None, an empty dict, 0, False, an empty list or string.
Falsy(value) ==
    \/ value.kind = "NoneType"
    \/ value.kind = "dict" /\ DOMAIN value.items = {}
    \/ value.kind # "dict" /\ value.value \in {"0", "False", "[]", ""}

\* The config file: absent; present but open() or yaml.safe_load raises;
\* present and parsed to doc.
File(state, doc) == [state |-> state, doc |-> doc]
NoFile == File("absent", Leaf("NoneType", "None"))

\* load_config with the handler left out: the exception reaches the caller.
load_config_unhandled(file) ==
    IF file.state = "absent" THEN DEFAULT_CONFIG
    ELSE IF file.state = "raises" THEN Leaf("raised", "YAMLError")
    ELSE LET user_config == IF Falsy(file.doc) THEN Dict(<< >>) ELSE file.doc
         IN  IF user_config.kind # "dict" THEN Leaf("raised", "AttributeError")
             ELSE deep_merge(DEFAULT_CONFIG, user_config)

\* `except Exception` covers open(), safe_load and deep_merge: a parsed value
\* that is not a dict has no items().
load_config(file) ==
    IF file.state = "absent" THEN DEFAULT_CONFIG
    ELSE IF file.state = "raises" THEN DEFAULT_CONFIG
    ELSE LET user_config == IF Falsy(file.doc) THEN Dict(<< >>) ELSE file.doc
         IN  IF user_config.kind # "dict" THEN DEFAULT_CONFIG
             ELSE deep_merge(DEFAULT_CONFIG, user_config)

NoConfigFile == config_file = NoFile /\ config = DEFAULT_CONFIG
NoPreview == dry_run = FALSE /\ console = << >>

\* context as scan_project creates it, reduced to the two keys modelled.
NewContext == [project_type |-> "unknown", entry_points |-> << >>]
NoContext == rglob_order = << >> /\ context = NewContext

\* ------------------------------------------------------- the sync command
InitSync ==
    /\ now = 1
    /\ mtimes \in {NoFiles, [NoFiles EXCEPT ![OutputPath] = 1]}
    /\ document \in (IF doc_exists THEN Docs ELSE {<< >>})
    /\ doc0 = document
    /\ prev = document
    /\ regions = << >>
    /\ nsyncs = 0
    /\ pc = "sleep"
    /\ with_history = FALSE
    /\ last_states = EmptyStates
    /\ current_states = EmptyStates
    /\ changes = << >>
    /\ logged = 0
    /\ new_content = << >>
    /\ existing_content = << >>
    /\ final_content = << >>
    /\ EmptyStore
    /\ NoCall
    /\ NoConfigFile
    /\ NoPreview
    /\ NoContext
    /\ NoScan

\* What a sync leaves alone with and without --dry-run.
notSync ==
    << doc0, now, pc, with_history, last_states, tickVars, storeVars, result, project_path,
       scan_error, configVars, scannerVars >>

\* The command with the test of dry_run after the write instead of before it.
sync_write_first(new, dry) ==
    /\ nsyncs < MaxSyncs
    /\ LET existing == IF doc_exists THEN document ELSE << >>
           final == merge_with_existing(existing, new)
       IN  /\ document' = final
           /\ mtimes' = [mtimes EXCEPT ![OutputPath] = now]
           /\ IF dry
              THEN /\ console' = final
                   /\ UNCHANGED << prev, regions, nsyncs >>
              ELSE /\ console' = << >>
                   /\ prev' = existing
                   /\ regions' = Append(regions, new)
                   /\ nsyncs' = nsyncs + 1
    /\ dry_run' = dry
    /\ UNCHANGED notSync

\* The sync command: scan, generate, read, merge; with --dry-run print the
\* merged text and return, otherwise write it.
sync(new, dry) ==
    /\ nsyncs < MaxSyncs
    /\ LET existing == IF doc_exists THEN document ELSE << >>
           final == merge_with_existing(existing, new)
       IN  IF dry
           THEN /\ console' = final
                /\ UNCHANGED << document, mtimes, prev, regions, nsyncs >>
           ELSE /\ document' = final
                /\ mtimes' = [mtimes EXCEPT ![OutputPath] = now]
                /\ console' = << >>
                /\ prev' = existing
                /\ regions' = Append(regions, new)
                /\ nsyncs' = nsyncs + 1
    /\ dry_run' = dry
    /\ UNCHANGED notSync

NextSync == \E r \in Regions : sync(r, FALSE)

SpecSync == InitSync /\ [][NextSync]_vars

\* Syncs of what generate_claude_md returns, with and without --dry-run.
NextDryRun == \E r \in GeneratedRegions : \E dry \in BOOLEAN : sync(r, dry)

SpecDryRun == InitSync /\ [][NextDryRun]_vars

\* ------------------------------------------------------ the history store
\* Timestamps are datetime.now().isoformat() strings, which SQLite and
\* list.sort compare as text; that order is the order of the clock readings,
\* so a timestamp is the clock reading itself.
\*
\* log_file_change: one INSERT, committed before it returns.  AUTOINCREMENT
\* gives the row the id after the largest ever used.
log_file_change_rowid(event_type, file_path, snippet) ==
    LET used == {file_changes[i].id : i \in 1..Len(file_changes)}
        id == IF used = {} THEN 1 ELSE 1 + CHOOSE m \in used : \A u \in used : u <= m
    IN  /\ file_changes' = Append(file_changes,
                                  [id |-> id, timestamp |-> now,
                                   event_type |-> event_type, file_path |-> file_path,
                                   snippet |-> snippet])
        /\ last_id' = id
        /\ issued' = issued \cup {<< "file_changes", id >>}
        /\ UNCHANGED << operations, last_op_id >>

log_file_change(event_type, file_path, snippet) ==
    /\ file_changes' = Append(file_changes,
                              [id |-> last_id + 1, timestamp |-> now,
                               event_type |-> event_type, file_path |-> file_path,
                               snippet |-> snippet])
    /\ last_id' = last_id + 1
    /\ issued' = issued \cup {<< "file_changes", last_id + 1 >>}
    /\ UNCHANGED << operations, last_op_id >>

log_operation(operation_type, summary) ==
    /\ operations' = Append(operations,
                            [id |-> last_op_id + 1, timestamp |-> now,
                             operation_type |-> operation_type, summary |-> summary])
    /\ last_op_id' = last_op_id + 1
    /\ issued' = issued \cup {<< "operations", last_op_id + 1 >>}
    /\ UNCHANGED << file_changes, last_id >>

\* The row sets "SELECT id ... ORDER BY timestamp DESC LIMIT max_entries" may
\* return: max_entries rows none of which is older than a row left out.  SQL
\* leaves the order among equal timestamps open.
NewestIds_oldest(rows, max_entries) ==
    LET idx == 1..Len(rows)
        n == IF Len(rows) < max_entries THEN Len(rows) ELSE max_entries
    IN  { {rows[i].id : i \in keep} :
            keep \in {k \in SUBSET idx :
                        /\ Cardinality(k) = n
                        /\ \A i \in k, j \in idx \ k :
                              rows[i].timestamp <= rows[j].timestamp} }

NewestIds(rows, max_entries) ==
    LET idx == 1..Len(rows)
        n == IF Len(rows) < max_entries THEN Len(rows) ELSE max_entries
    IN  { {rows[i].id : i \in keep} :
            keep \in {k \in SUBSET idx :
                        /\ Cardinality(k) = n
                        /\ \A i \in k, j \in idx \ k :
                              rows[i].timestamp >= rows[j].timestamp} }

\* The two DELETE ... WHERE id NOT IN (...) statements and the commit.
cleanup_old_entries(max_entries) ==
    /\ \E ids \in NewestIds(file_changes, max_entries) :
          file_changes' = SelectSeq(file_changes, LAMBDA r : r.id \in ids)
    /\ \E ids \in NewestIds(operations, max_entries) :
          operations' = SelectSeq(operations, LAMBDA r : r.id \in ids)
    /\ UNCHANGED << last_id, last_op_id, issued >>

\* "SELECT * ... ORDER BY timestamp DESC LIMIT limit": the rows in any order
\* that is non-increasing in timestamp, cut after limit rows.
OrdersByTimestampDesc(rows) ==
    LET n == Len(rows)
    IN  { [i \in 1..n |-> rows[f[i]]] :
            f \in {g \in [1..n -> 1..n] :
                     /\ \A i, j \in 1..n : i # j => g[i] # g[j]
                     /\ \A i, j \in 1..n :
                           i < j => rows[g[i]].timestamp >= rows[g[j]].timestamp} }

Limited(rows, limit) == SubSeq(rows, 1, IF Len(rows) < limit THEN Len(rows) ELSE limit)

get_recent_changes(limit) ==
    { Limited(rows, limit) : rows \in OrdersByTimestampDesc(file_changes) }

get_recent_operations(limit) ==
    { Limited(rows, limit) : rows \in OrdersByTimestampDesc(operations) }

\* c['category'] = 'file' / o['category'] = 'operation'
AsFile(c) ==
    [id |-> c.id, timestamp |-> c.timestamp, event_type |-> c.event_type,
     file_path |-> c.file_path, snippet |-> c.snippet, category |-> "file"]

AsOperation(o) ==
    [id |-> o.id, timestamp |-> o.timestamp, operation_type |-> o.operation_type,
     summary |-> o.summary, category |-> "operation"]

\* combined.sort(key=lambda x: x['timestamp'], reverse=True): a stable sort,
\* rows of equal timestamp keep the order they had.
RECURSIVE insert_desc(_, _)
insert_desc(x, sorted) ==
    IF sorted = << >> THEN << x >>
    ELSE IF Head(sorted).timestamp <= x.timestamp THEN << x >> \o sorted
    ELSE << Head(sorted) >> \o insert_desc(x, Tail(sorted))

RECURSIVE sort_desc(_)
sort_desc(rows) ==
    IF rows = << >> THEN << >>
    ELSE insert_desc(Head(rows), sort_desc(Tail(rows)))

combine_unsorted(changes_, ops) == changes_ \o ops

combine(changes_, ops) == sort_desc(changes_ \o ops)

get_combined_history(limit) ==
    { Limited(combine([i \in 1..Len(cs) |-> AsFile(cs[i])],
                      [i \in 1..Len(os) |-> AsOperation(os[i])]), limit) :
        cs \in get_recent_changes(limit), os \in get_recent_operations(limit) }

\* The store used through its API: appends, trims, queries, and the wall
\* clock, which may be set back between two calls.
InitHistory ==
    /\ now = 1
    /\ mtimes = NoFiles
    /\ document = << >>
    /\ doc0 = << >>
    /\ prev = << >>
    /\ regions = << >>
    /\ nsyncs = 0
    /\ pc = "sleep"
    /\ with_history = TRUE
    /\ last_states = EmptyStates
    /\ current_states = EmptyStates
    /\ changes = << >>
    /\ logged = 0
    /\ new_content = << >>
    /\ existing_content = << >>
    /\ final_content = << >>
    /\ EmptyStore
    /\ NoCall
    /\ NoConfigFile
    /\ NoPreview
    /\ NoContext
    /\ NoScan

notStore == << document, mtimes, syncVars, pc, with_history, last_states, tickVars,
              project_path, scan_error, configVars, previewVars,
       scannerVars >>

LogFileChange(event_type, file_path) ==
    /\ last_id + last_op_id < MaxRows
    /\ log_file_change(event_type, file_path, "None")
    /\ result' = Call("log_file_change", 0, << >>)
    /\ UNCHANGED << now, notStore >>

LogOperation(operation_type) ==
    /\ last_id + last_op_id < MaxRows
    /\ log_operation(operation_type, "summary")
    /\ result' = Call("log_operation", 0, << >>)
    /\ UNCHANGED << now, notStore >>

CleanupOldEntries(max_entries) ==
    /\ cleanup_old_entries(max_entries)
    /\ result' = Call("cleanup_old_entries", max_entries, << >>)
    /\ UNCHANGED << now, notStore >>

GetRecentChanges(limit) ==
    /\ \E rows \in get_recent_changes(limit) :
          result' = Call("get_recent_changes", limit, rows)
    /\ UNCHANGED << now, notStore, storeVars >>

GetRecentOperations(limit) ==
    /\ \E rows \in get_recent_operations(limit) :
          result' = Call("get_recent_operations", limit, rows)
    /\ UNCHANGED << now, notStore, storeVars >>

GetCombinedHistory(limit) ==
    /\ \E rows \in get_combined_history(limit) :
          result' = Call("get_combined_history", limit, rows)
    /\ UNCHANGED << now, notStore, storeVars >>

ClockStep ==
    /\ now' \in (1..MaxStamp) \ {now}
    /\ result' = Call("clock", 0, << >>)
    /\ UNCHANGED << notStore, storeVars >>

NextHistory ==
    \/ LogFileChange("modified", "a.py")
    \/ LogOperation("Bash")
    \/ \E n \in 0..MaxEntries : CleanupOldEntries(n)
    \/ \E l \in 0..MaxLimit : GetRecentChanges(l)
    \/ \E l \in 0..MaxLimit : GetRecentOperations(l)
    \/ \E l \in 0..MaxLimit : GetCombinedHistory(l)
    \/ ClockStep

SpecHistory == InitHistory /\ [][NextHistory]_vars

\* ---------------------------------------------------------- the watch loop
\* exclude_patterns = set(config['watch']['exclude']), the default list.
exclude_patterns ==
    { << ".git" >>, << "node_modules" >>, << "__pycache__" >>, << ".", "venv" >>,
      << "venv" >>, << ".claude", "/", "cck_history.sqlite" >> }

\* str(filepath): every part after a "/".
RECURSIVE str(_)
str(filepath) ==
    IF filepath = << >> THEN << >>
    ELSE << "/" >> \o Head(filepath) \o str(Tail(filepath))

endswith(s, suffix) ==
    /\ Len(suffix) <= Len(s)
    /\ SubSeq(s, Len(s) - Len(suffix) + 1, Len(s)) = suffix

should_ignore(filepath) ==
    \E pattern \in exclude_patterns :
        \/ \E i \in 1..Len(filepath) : filepath[i] = pattern
        \/ endswith(str(filepath), pattern)

\* p.rglob('*'): the entries that exist, in walk order.
rglob == SelectSeq(WalkOrder, LAMBDA q : q \in DOMAIN mtimes /\ mtimes[q] # 0)

\* The body of the for loop in get_file_states.  err is the entry whose
\* is_file() or stat() raises: the handler around the whole loop ends the walk
\* there and what was collected so far is returned.
RECURSIVE walk(_, _, _, _)
walk(p, entries, states, err) ==
    IF entries = << >> THEN states
    ELSE LET f == Head(entries)
         IN  IF should_ignore(p \o parts(f)) THEN walk(p, Tail(entries), states, err)
             ELSE IF f = err THEN states
             ELSE walk(p, Tail(entries), states @@ (f :> mtimes[f]), err)

\* get_file_states: path -> st_mtime of every file the walk recorded.
get_file_states(p, err) == walk(p, rglob, EmptyStates, err)

\* The entries at which a walk can raise: those whose is_file() is called.
CanRaise(p) ==
    {rglob[i] : i \in {j \in 1..Len(rglob) : ~should_ignore(p \o parts(rglob[j]))}}

\* The keys of a snapshot in the order the walk inserted them.
Keys(states) == SelectSeq(WalkOrder, LAMBDA p : p \in DOMAIN states)

\* for path_str, mtime in current_states.items(): created / modified
RECURSIVE detect_current_newer(_, _, _)
detect_current_newer(keys, current, last) ==
    IF keys = << >> THEN << >>
    ELSE LET path_str == Head(keys)
             rest == detect_current_newer(Tail(keys), current, last)
         IN  IF path_str \notin DOMAIN last THEN << << "created", path_str >> >> \o rest
             ELSE IF last[path_str] < current[path_str]
                  THEN << << "modified", path_str >> >> \o rest
                  ELSE rest

RECURSIVE detect_current(_, _, _)
detect_current(keys, current, last) ==
    IF keys = << >> THEN << >>
    ELSE LET path_str == Head(keys)
             rest == detect_current(Tail(keys), current, last)
         IN  IF path_str \notin DOMAIN last THEN << << "created", path_str >> >> \o rest
             ELSE IF last[path_str] # current[path_str]
                  THEN << << "modified", path_str >> >> \o rest
                  ELSE rest

\* for path_str in last_states: deleted
RECURSIVE detect_deleted(_, _)
detect_deleted(keys, current) ==
    IF keys = << >> THEN << >>
    ELSE LET path_str == Head(keys)
             rest == detect_deleted(Tail(keys), current)
         IN  IF path_str \notin DOMAIN current THEN << << "deleted", path_str >> >> \o rest
             ELSE rest

detect_changes(current, last) ==
    detect_current(Keys(current), current, last) \o detect_deleted(Keys(last), current)

InitWatch ==
    /\ now = 1
    /\ mtimes \in [Paths -> {0, 1}]
    /\ document \in (IF doc_exists THEN WatchDocs ELSE {<< >>})
    /\ doc0 = << >>
    /\ prev = << >>
    /\ regions = << >>
    /\ nsyncs = 0
    /\ pc = "scan"
    /\ with_history \in BOOLEAN
    /\ last_states = EmptyStates
    /\ current_states = EmptyStates
    /\ changes = << >>
    /\ logged = 0
    /\ new_content = << >>
    /\ existing_content = << >>
    /\ final_content = << >>
    /\ EmptyStore
    /\ NoCall
    /\ NoConfigFile
    /\ NoPreview
    /\ NoContext
    /\ NoScan

Running == pc \notin {"stopped", "aborted"}

\* current_states = get_file_states(project_path)
Scan ==
    /\ pc = "scan"
    /\ \E err \in {"none"} \cup CanRaise(project_path) :
          /\ current_states' = get_file_states(project_path, err)
          /\ scan_error' = err
    /\ pc' = "detect"
    /\ UNCHANGED << document, mtimes, now, syncVars, result, project_path, with_history,
                    last_states, changes, logged, new_content, existing_content,
                    final_content, storeVars, configVars, previewVars,
       scannerVars >>

\* The two detection loops and the test `if changes:`.
Detect_without_test ==
    /\ pc = "detect"
    /\ changes' = detect_changes(current_states, last_states)
    /\ logged' = 0
    /\ pc' = IF with_history THEN "record" ELSE "generate"
    /\ UNCHANGED << document, mtimes, now, syncVars, otherVars, with_history, last_states,
                    current_states, new_content, existing_content, final_content,
                    storeVars >>

Detect ==
    /\ pc = "detect"
    /\ changes' = detect_changes(current_states, last_states)
    /\ logged' = 0
    /\ pc' = IF changes' = << >> THEN "sleep"
             ELSE IF with_history THEN "record"
             ELSE "generate"
    /\ UNCHANGED << document, mtimes, now, syncVars, otherVars, with_history, last_states,
                    current_states, new_content, existing_content, final_content,
                    storeVars >>

\* One pass of `for event_type, file_path in changes`: the snippet is read
\* when the event is not a deletion and the file can be opened.
LogChange ==
    /\ pc = "record"
    /\ logged < Len(changes)
    /\ LET event_type == changes[logged + 1][1]
           file_path == changes[logged + 1][2]
           snippet == IF event_type # "deleted" /\ mtimes[file_path] # 0
                      THEN "text" ELSE "None"
       IN  log_file_change(event_type, file_path, snippet)
    /\ logged' = logged + 1
    /\ UNCHANGED << document, mtimes, now, syncVars, otherVars, pc, with_history, last_states,
                    current_states, changes, new_content, existing_content,
                    final_content >>

\* The loop without its trim: the tick goes on to regenerate the document.
Cleanup_without_trim ==
    /\ pc = "record"
    /\ logged = Len(changes)
    /\ pc' = "generate"
    /\ UNCHANGED << document, mtimes, now, syncVars, otherVars, with_history, last_states,
                    tickVars, storeVars >>

\* cleanup_old_entries(db_conn, config['history']['max_entries'])
Cleanup ==
    /\ pc = "record"
    /\ logged = Len(changes)
    /\ cleanup_old_entries(MaxEntries)
    /\ pc' = "generate"
    /\ UNCHANGED << document, mtimes, now, syncVars, otherVars, with_history, last_states,
                    tickVars >>

\* context = scan_project(project_path); new_content = generate_claude_md(context)
Generate ==
    /\ pc = "generate"
    /\ new_content' \in GeneratedRegions
    /\ pc' = "read"
    /\ UNCHANGED << document, mtimes, now, syncVars, otherVars, with_history, last_states,
                    current_states, changes, logged, existing_content, final_content,
                    storeVars >>

\* existing_content = output_path.read_text() if it exists; the merge.
ReadMerge ==
    /\ pc = "read"
    /\ existing_content' = (IF doc_exists THEN document ELSE << >>)
    /\ final_content' = merge_with_existing(existing_content', new_content)
    /\ pc' = "write"
    /\ UNCHANGED << document, mtimes, now, syncVars, otherVars, with_history, last_states,
                    current_states, changes, logged, new_content, storeVars >>

\* output_path.write_text(final_content), first half: open(mode='w') creates
\* the file or truncates it.
WriteOpen ==
    /\ pc = "write"
    /\ document' = << >>
    /\ mtimes' = [mtimes EXCEPT ![OutputPath] = now]
    /\ pc' = "write_data"
    /\ UNCHANGED << now, syncVars, otherVars, with_history, last_states, tickVars, storeVars >>

\* write_text, second half: the text is written and the file closed.
WriteData ==
    /\ pc = "write_data"
    /\ document' = final_content
    /\ pc' = "commit"
    /\ UNCHANGED << mtimes, now, syncVars, otherVars, with_history, last_states, tickVars,
                    storeVars >>

\* last_states = current_states
Commit ==
    /\ pc = "commit"
    /\ last_states' = current_states
    /\ pc' = "sleep"
    /\ UNCHANGED << document, mtimes, now, syncVars, otherVars, with_history, tickVars,
                    storeVars >>

\* time.sleep(interval)
Sleep ==
    /\ pc = "sleep"
    /\ now < MaxTime
    /\ now' = now + 1
    /\ pc' = "scan"
    /\ UNCHANGED << document, mtimes, syncVars, otherVars, with_history, last_states, tickVars,
                    storeVars >>

\* A call of the tick raises (sqlite3.Error, OSError, ...).  The loop's only
\* handler is `except KeyboardInterrupt`, so the exception leaves watch().
\* A write that fails part-way leaves what it had written so far.
StrictPrefixes(s) == {SubSeq(s, 1, k) : k \in 0..(Len(s) - 1)}

Raise ==
    /\ \/ pc \in {"record", "generate", "write"} /\ UNCHANGED document
       \/ pc = "read" /\ doc_exists /\ UNCHANGED document
       \/ pc = "write_data" /\ document' \in StrictPrefixes(final_content)
    /\ pc' = "aborted"
    /\ UNCHANGED << mtimes, now, syncVars, otherVars, with_history, last_states, tickVars,
                    storeVars >>

\* Ctrl+C: KeyboardInterrupt is raised at whatever statement is running and
\* caught by the handler around the loop.
KeyboardInterrupt ==
    /\ Running
    /\ pc' = "stopped"
    /\ UNCHANGED << document, mtimes, now, syncVars, otherVars, with_history, last_states,
                    tickVars, storeVars >>

\* Somebody else writes or deletes a project file.
EnvWrite(p) ==
    /\ Running
    /\ mtimes[p] # now
    /\ mtimes' = [mtimes EXCEPT ![p] = now]
    /\ UNCHANGED << document, now, syncVars, otherVars, pc, with_history, last_states, tickVars,
                    storeVars >>

EnvDelete(p) ==
    /\ Running
    /\ mtimes[p] # 0
    /\ mtimes' = [mtimes EXCEPT ![p] = 0]
    /\ UNCHANGED << document, now, syncVars, otherVars, pc, with_history, last_states, tickVars,
                    storeVars >>

NextWatch ==
    \/ Scan
    \/ Detect
    \/ LogChange
    \/ Cleanup
    \/ Generate
    \/ ReadMerge
    \/ WriteOpen
    \/ WriteData
    \/ Commit
    \/ Sleep
    \/ Raise
    \/ KeyboardInterrupt
    \/ \E p \in UserPaths : EnvWrite(p)
    \/ \E p \in UserPaths : EnvDelete(p)

Spec == InitWatch /\ [][NextWatch]_vars

\* ------------------------------------------- change detection on its own
\* Every pair of snapshots over SnapshotPaths, handed to the detection step.
Snapshots ==
    UNION {[dom -> 1..MaxMtime] : dom \in SUBSET SnapshotPaths}

InitDetect ==
    /\ now = 1
    /\ mtimes = NoFiles
    /\ document = << >>
    /\ doc0 = << >>
    /\ prev = << >>
    /\ regions = << >>
    /\ nsyncs = 0
    /\ pc = "detect"
    /\ with_history \in BOOLEAN
    /\ last_states \in Snapshots
    /\ current_states \in Snapshots
    /\ changes = << >>
    /\ logged = 0
    /\ new_content = << >>
    /\ existing_content = << >>
    /\ final_content = << >>
    /\ EmptyStore
    /\ NoCall
    /\ NoConfigFile
    /\ NoPreview
    /\ NoContext
    /\ NoScan

SpecDetect == InitDetect /\ [][Detect]_vars

\* ------------------------------------------------- the first scan on its own
\* Every tree over ScanPaths under either root, scanned once and compared
\* with the empty snapshot the loop starts with.
InitScan ==
    /\ now = MaxMtime
    /\ mtimes \in [ScanPaths -> 0..MaxMtime]
    /\ project_path \in Roots
    /\ scan_error = "none"
    /\ document = << >>
    /\ doc0 = << >>
    /\ prev = << >>
    /\ regions = << >>
    /\ nsyncs = 0
    /\ pc = "scan"
    /\ with_history = FALSE
    /\ last_states = EmptyStates
    /\ current_states = EmptyStates
    /\ changes = << >>
    /\ logged = 0
    /\ new_content = << >>
    /\ existing_content = << >>
    /\ final_content = << >>
    /\ EmptyStore
    /\ NoCall
    /\ NoConfigFile
    /\ NoPreview
    /\ NoContext

NextScan ==
    \/ Scan
    \/ Detect

SpecScan == InitScan /\ [][NextScan]_vars

\* ------------------------------------------- loading the config on its own
\* What a user may have written: top-level keys, one of them unrecognized,
\* each with nothing after the colon, a number, or a nested map.
TopKeys == {"watch", "history", "theme"}

UserValues ==
    { Leaf("NoneType", "None"),
      Leaf("int", "5"),
      Dict("exclude" :> Leaf("list", "user exclude")),
      Dict("max_entries" :> Leaf("int", "10")) }

UserDicts == { Dict(entries) : entries \in UNION { [keys -> UserValues] : keys \in SUBSET TopKeys } }

ConfigFiles ==
    { NoFile, File("raises", Leaf("NoneType", "None")) }
        \cup { File("parsed", doc) :
                 doc \in UserDicts \cup { Leaf("NoneType", "None"), Leaf("str", "text"),
                                          Leaf("list", "[1]"), Leaf("int", "0") } }

InitConfig ==
    /\ now = 1
    /\ mtimes = NoFiles
    /\ document = << >>
    /\ doc0 = << >>
    /\ prev = << >>
    /\ regions = << >>
    /\ nsyncs = 0
    /\ pc = "load"
    /\ with_history \in BOOLEAN
    /\ last_states = EmptyStates
    /\ current_states = EmptyStates
    /\ changes = << >>
    /\ logged = 0
    /\ new_content = << >>
    /\ existing_content = << >>
    /\ final_content = << >>
    /\ EmptyStore
    /\ result = Call("none", 0, << >>)
    /\ NoScan
    /\ config_file \in ConfigFiles
    /\ config = Leaf("NoneType", "None")
    /\ NoPreview
    /\ NoContext

notConfig ==
    << document, mtimes, now, syncVars, with_history, last_states, tickVars, storeVars,
       result, project_path, scan_error, config_file, previewVars,
       scannerVars >>

\* config = load_config(project_path)
LoadConfig ==
    /\ pc = "load"
    /\ config' = load_config(config_file)
    /\ pc' = "start"
    /\ UNCHANGED notConfig

\* value[key] raises nothing: value is a dict that has the key.
CanSubscript(value, key) == value.kind = "dict" /\ key \in DOMAIN value.items

\* watch() from load_config to the loop: project_path / config['history']['db_path']
\* when --with-history, set(config['watch']['exclude']).  A TypeError or
\* KeyError here is not caught.
WatchStart ==
    /\ pc = "start"
    /\ LET db_path_ok ==
               /\ CanSubscript(config, "history")
               /\ CanSubscript(config.items["history"], "db_path")
               /\ config.items["history"].items["db_path"].kind = "str"
           exclude_ok ==
               /\ CanSubscript(config, "watch")
               /\ CanSubscript(config.items["watch"], "exclude")
               /\ config.items["watch"].items["exclude"].kind \in {"list", "str", "dict"}
       IN  pc' = IF (with_history => db_path_ok) /\ exclude_ok THEN "scan" ELSE "aborted"
    /\ UNCHANGED << config, notConfig >>

NextConfig ==
    \/ LoadConfig
    \/ WatchStart

SpecConfig == InitConfig /\ [][NextConfig]_vars

\* ------------------------------------------------------------ scan_project
\* for candidate in candidates[:3]
CandidateLimit == 3

ignore_dirs ==
    { << ".git" >>, << "__pycache__" >>, << "node_modules" >>, << ".", "venv" >>,
      << "venv" >>, << ".tox" >>, << "dist" >>, << "build" >>, << "site-packages" >> }

\* type_indicators in the order of the dict: << file, ptype >>.
type_indicators ==
    << << "pyproject.toml", "python" >>, << "setup.py", "python" >>,
       << "requirements.txt", "python" >>, << "package.json", "node" >>,
       << "go.mod", "go" >>, << "Cargo.toml", "rust" >>,
       << "composer.json", "php" >>, << "Gemfile", "ruby" >> >>

\* (path / file).exists()
exists(file) == file \in DOMAIN mtimes /\ mtimes[file] # 0

\* The loop of _detect_project_type: the last indicator that exists wins.
RECURSIVE detect_project_type(_, _)
detect_project_type(indicators, project_type) ==
    IF indicators = << >> THEN project_type
    ELSE detect_project_type(Tail(indicators),
                             IF exists(Head(indicators)[1]) THEN Head(indicators)[2]
                             ELSE project_type)

\* entry_patterns.get(project_type, []): a pattern is the parts it names.
entry_patterns(project_type) ==
    CASE project_type = "python" ->
            << << << "main.py" >> >>, << << "app.py" >> >>, << << "cli.py" >> >>,
               << << "__main__.py" >> >>, << << "run.py" >> >> >>
      [] project_type = "node" ->
            << << << "index.js" >> >>, << << "index.ts" >> >>, << << "main.js" >> >>,
               << << "main.ts" >> >>, << << "app.js" >> >>, << << "app.ts" >> >>,
               << << "server.js" >> >>, << << "server.ts" >> >> >>
      [] project_type = "go" ->
            << << << "main.go" >> >>, << << "cmd" >>, << "main.go" >> >> >>
      [] project_type = "rust" ->
            << << << "src" >>, << "main.rs" >> >>, << << "src" >>, << "lib.rs" >> >> >>
      [] OTHER -> << >>

\* list(path.rglob(pattern)): the existing files whose last parts are the
\* pattern, in the order of the walk.
rglob_pattern(pattern) ==
    SelectSeq(rglob_order, LAMBDA f : exists(f) /\ endswith(parts(f), pattern))

\* The inner loop of _find_entry_points over candidates[:3].
RECURSIVE add_candidates(_, _)
add_candidates(candidates, entry_points) ==
    IF candidates = << >> THEN entry_points
    ELSE LET candidate == Head(candidates)
             candidate_parts == project_path \o parts(candidate)
         IN  IF \E ignored \in ignore_dirs :
                   \E i \in 1..Len(candidate_parts) : candidate_parts[i] = ignored
             THEN add_candidates(Tail(candidates), entry_points)
             ELSE IF \E i \in 1..Len(entry_points) : entry_points[i] = candidate
             THEN add_candidates(Tail(candidates), entry_points)
             ELSE add_candidates(Tail(candidates), Append(entry_points, candidate))

\* The outer loop of _find_entry_points over the patterns.
RECURSIVE find_entry_points(_, _)
find_entry_points(patterns, entry_points) ==
    IF patterns = << >> THEN entry_points
    ELSE LET candidates == rglob_pattern(Head(patterns))
             limited == SubSeq(candidates, 1,
                               IF Len(candidates) < CandidateLimit THEN Len(candidates)
                               ELSE CandidateLimit)
         IN  find_entry_points(Tail(patterns), add_candidates(limited, entry_points))

scan_project ==
    LET project_type == detect_project_type(type_indicators, NewContext.project_type)
    IN  [project_type |-> project_type,
         entry_points |-> find_entry_points(entry_patterns(project_type),
                                            NewContext.entry_points)]

\* The trees scanned: the indicator files, the project's own entry points at
\* the root and in src, and files of the same names below ignored directories.
RootFiles == << "pyproject.toml", "package.json", "main.py" >>
TopDirs == {".venv", "node_modules", "src", "build"}

FilesBelow(dir) ==
    CASE dir = ".venv" -> << ".venv/lib/main.py", ".venv/bin/main.py" >>
      [] dir = "node_modules" -> << "node_modules/pkg/main.py" >>
      [] dir = "src" -> << "src/main.py" >>
      [] dir = "build" -> << "build/app.py" >>

\* The walk yields a directory's own entries before those of its
\* subdirectories; the order of the subdirectories is the file system's.
RglobOrders ==
    { RootFiles \o FilesBelow(o[1]) \o FilesBelow(o[2]) \o FilesBelow(o[3]) \o FilesBelow(o[4]) :
        o \in { q \in [1..4 -> TopDirs] : \A i, j \in 1..4 : q[i] = q[j] => i = j } }

ScannerFiles == UNION { {order[i] : i \in 1..Len(order)} : order \in RglobOrders }

InitScanner ==
    /\ now = 1
    /\ mtimes \in [ScannerFiles -> {0, 1}]
    /\ project_path \in Roots
    /\ rglob_order \in RglobOrders
    /\ context = NewContext
    /\ scan_error = "none"
    /\ document = << >>
    /\ doc0 = << >>
    /\ prev = << >>
    /\ regions = << >>
    /\ nsyncs = 0
    /\ pc = "scan_project"
    /\ with_history = FALSE
    /\ last_states = EmptyStates
    /\ current_states = EmptyStates
    /\ changes = << >>
    /\ logged = 0
    /\ new_content = << >>
    /\ existing_content = << >>
    /\ final_content = << >>
    /\ EmptyStore
    /\ result = Call("none", 0, << >>)
    /\ NoConfigFile
    /\ dry_run = FALSE
    /\ console = << >>

\* context = scan_project(project_path)
ScanProject ==
    /\ pc = "scan_project"
    /\ context' = scan_project
    /\ pc' = "scanned"
    /\ UNCHANGED << document, mtimes, now, syncVars, with_history, last_states, tickVars,
                    storeVars, result, project_path, scan_error, configVars, previewVars,
                    rglob_order >>

SpecScanner == InitScanner /\ [][ScanProject]_vars

\* ---------------------------------------------- vocabulary of the properties
\* Stated on their own, not through find/rstrip/lstrip, so that the properties
\* below are a second description of the text the merge has to produce.
Has(d, m) == \E i \in 0..Len(d) : OccursAt(d, m, i)

First(d, m) ==
    CHOOSE i \in 0..Len(d) : OccursAt(d, m, i) /\ \A j \in 0..(i - 1) : ~OccursAt(d, m, j)

\* The text strictly before the first AUTO_START / strictly after the first AUTO_END.
Leading(d) == SubSeq(d, 1, First(d, AUTO_START))
Trailing(d) == SubSeq(d, First(d, AUTO_END) + Len(AUTO_END) + 1, Len(d))
Between(d) == SubSeq(d, First(d, AUTO_START) + Len(AUTO_START) + 1, First(d, AUTO_END))

AllSpace(s) == \A i \in 1..Len(s) : IsSpace(s[i])

\* s with its trailing whitespace removed: the prefix of s that leaves only
\* whitespace behind and does not itself end in whitespace.
RTrim(s) ==
    CHOOSE x \in {SubSeq(s, 1, k) : k \in 0..Len(s)} :
        /\ AllSpace(SubSeq(s, Len(x) + 1, Len(s)))
        /\ (x = << >> \/ ~IsSpace(x[Len(x)]))

LTrim(s) ==
    CHOOSE x \in {SubSeq(s, k + 1, Len(s)) : k \in 0..Len(s)} :
        /\ AllSpace(SubSeq(s, 1, Len(s) - Len(x)))
        /\ (x = << >> \/ ~IsSpace(x[1]))

Trim(s) == LTrim(RTrim(s))

BlankLine == << "\n", "\n" >>
RuleLine == << "\n", "\n", "-", "-", "-", "\n", "\n" >>

BothMarkers(d) == Has(d, AUTO_START) /\ Has(d, AUTO_END)
PairInOrder(d) == BothMarkers(d) /\ First(d, AUTO_START) < First(d, AUTO_END)
PairReversed(d) == BothMarkers(d) /\ First(d, AUTO_END) < First(d, AUTO_START)

\* The form the generator gives a region: the marker pair, in order, with
\* nothing but whitespace outside it.
WellFormedRegion(r) ==
    /\ PairInOrder(r)
    /\ AllSpace(Leading(r))
    /\ AllSpace(Trailing(r))

\* x occurs in d and ends at or before position i / starts at or after position i.
OccursBefore(d, x, i) == \E j \in 0..i : OccursAt(d, x, j) /\ j + Len(x) <= i
OccursAfter(d, x, i) == \E j \in i..Len(d) : OccursAt(d, x, j)

\* ------------------------------------------------------------------ claims

\* C1 (as claimed): after every sync the human-owned text of the first document
\* (its text before the first AUTO_START and after the first AUTO_END, or all of
\* it when it has no marker pair) is still in the document, up to trimming.
C1_HumanTextSurvives ==
    nsyncs >= 1 =>
        IF BothMarkers(doc0)
        THEN Has(document, Trim(Leading(doc0))) /\ Has(document, Trim(Trailing(doc0)))
        ELSE Has(document, Trim(doc0))

\* C2 (as claimed): a sync that repeats the region of the sync before it leaves
\* the document as that sync left it, whatever the document and the region.
C2_IdempotentAnyInput ==
    [][(nsyncs >= 1 /\ nsyncs' = nsyncs + 1 /\ region' = region)
        => document' = document]_vars

\* C2 (amended): the same, for a region of the generator's form and a document
\* that, before the first of the two syncs, was empty, held no marker, or held
\* its first AUTO_START before its first AUTO_END.
MergeableDoc(d) ==
    \/ d = << >>
    \/ ~Has(d, AUTO_START) /\ ~Has(d, AUTO_END)
    \/ PairInOrder(d)

C2_IdempotentWellFormed ==
    [][(/\ nsyncs >= 1
        /\ nsyncs' = nsyncs + 1
        /\ region' = region
        /\ WellFormedRegion(region)
        /\ MergeableDoc(prev))
        => document' = document]_vars

C2_Witness ==
    /\ nsyncs >= 2
    /\ regions[Len(regions)] = regions[Len(regions) - 1]
    /\ WellFormedRegion(region)
    /\ document = prev
    /\ PairInOrder(doc0)
    /\ Trim(Leading(doc0)) # << >>
    /\ Trim(Trailing(doc0)) # << >>

\* C3 (as claimed): when the document held the marker pair, the merged document
\* holds the leading text verbatim before the region and the trailing text
\* verbatim after it.
C3_VerbatimAroundRegion ==
    (nsyncs >= 1 /\ PairInOrder(prev)) =>
        \E i \in 0..Len(document) :
            /\ OccursAt(document, region, i)
            /\ OccursBefore(document, Leading(prev), i)
            /\ OccursAfter(document, Trailing(prev), i + Len(region))

\* C3 (amended): the merged document holds the leading text, without its
\* trailing whitespace, before the region and the trailing text, without its
\* leading whitespace, after it.
C3_TrimmedAroundRegion ==
    (nsyncs >= 1 /\ PairInOrder(prev)) =>
        \E i \in 0..Len(document) :
            /\ OccursAt(document, region, i)
            /\ OccursBefore(document, RTrim(Leading(prev)), i)
            /\ OccursAfter(document, LTrim(Trailing(prev)), i + Len(region))

C3_Witness ==
    /\ nsyncs >= 1
    /\ PairInOrder(prev)
    /\ RTrim(Leading(prev)) # << >>
    /\ RTrim(Leading(prev)) # Leading(prev)
    /\ LTrim(Trailing(prev)) # << >>

\* C4: when the document held AUTO_START before AUTO_END, the merged document is
\* exactly the trimmed leading text, a blank line, the region, a blank line and
\* the trimmed trailing text, an empty block going with its blank line; nothing
\* that stood between the markers is carried over.
C4_SpliceForm ==
    (nsyncs >= 1 /\ PairInOrder(prev)) =>
        LET lead == RTrim(Leading(prev))
            trail == LTrim(Trailing(prev))
        IN  document = (IF lead = << >> THEN << >> ELSE lead \o BlankLine)
                       \o region
                       \o (IF trail = << >> THEN << >> ELSE BlankLine \o trail)

C4_Witness ==
    /\ nsyncs >= 1
    /\ PairInOrder(prev)
    /\ RTrim(Leading(prev)) # << >>
    /\ LTrim(Trailing(prev)) # << >>
    /\ Between(prev) # << >>
    /\ ~Has(document, Between(prev))

\* C5: a non-empty document that lacks AUTO_START or AUTO_END is kept, without
\* its trailing whitespace, and followed by the rule line and the region; an
\* empty document gives the region alone.
C5_LegacyAppend ==
    nsyncs >= 1 =>
        /\ (prev # << >> /\ ~BothMarkers(prev))
              => document = RTrim(prev) \o RuleLine \o region
        /\ prev = << >> => document = region

C5_Witness ==
    /\ nsyncs >= 1
    /\ prev # << >>
    /\ Has(prev, AUTO_START)
    /\ ~Has(prev, AUTO_END)
    /\ RTrim(prev) # prev

C5_WitnessEmpty == nsyncs >= 1 /\ prev = << >> /\ document = region

\* C6 (as claimed): a document whose first AUTO_END comes before its first
\* AUTO_START is merged as one without markers: kept whole and followed by the
\* rule line and the region.
C6_ReversedMarkersAppend ==
    (nsyncs >= 1 /\ PairReversed(prev)) =>
        document = RTrim(prev) \o RuleLine \o region

\* C7: the events of a tick are exactly one "created" for each path in the
\* current snapshot alone, one "deleted" for each path in the stored snapshot
\* alone, one "modified" for each path in both with different mtimes, and
\* nothing else.
CountOf(kind, p) ==
    Cardinality({i \in 1..Len(changes) : changes[i] = << kind, p >>})

Expect(cond) == IF cond THEN 1 ELSE 0

C7_DetectionExact ==
    pc # "detect" =>
        /\ \A i \in 1..Len(changes) :
              /\ changes[i][1] \in {"created", "modified", "deleted"}
              /\ changes[i][2] \in SnapshotPaths
        /\ \A p \in SnapshotPaths :
              /\ CountOf("created", p) =
                    Expect(p \in DOMAIN current_states /\ p \notin DOMAIN last_states)
              /\ CountOf("deleted", p) =
                    Expect(p \in DOMAIN last_states /\ p \notin DOMAIN current_states)
              /\ CountOf("modified", p) =
                    Expect(/\ p \in DOMAIN current_states
                           /\ p \in DOMAIN last_states
                           /\ current_states[p] # last_states[p])

C7_Witness ==
    /\ pc # "detect"
    /\ \E p, q, r, u \in SnapshotPaths :
          /\ CountOf("created", p) = 1
          /\ CountOf("deleted", q) = 1
          /\ CountOf("modified", r) = 1 /\ current_states[r] < last_states[r]
          /\ u \in DOMAIN current_states /\ u \in DOMAIN last_states
          /\ \A k \in {"created", "modified", "deleted"} : CountOf(k, u) = 0

C7_WitnessFirstScan ==
    /\ pc # "detect"
    /\ last_states = EmptyStates
    /\ Len(changes) = Cardinality(SnapshotPaths)
    /\ \A i \in 1..Len(changes) : changes[i][1] = "created"

\* C8: a tick that detects no event goes straight to the sleep; it does not
\* regenerate or write the document, append to or trim the history, or
\* replace the stored snapshot.
EmptyTick ==
    \/ pc = "detect" /\ changes' = << >>
    \/ pc = "sleep" /\ changes = << >>

C8_EmptyTickIsNoOp ==
    [][EmptyTick =>
        /\ pc' \notin {"record", "generate", "read", "write", "write_data", "commit"}
        /\ document' = document
        /\ mtimes'[OutputPath] = mtimes[OutputPath]
        /\ file_changes' = file_changes
        /\ last_id' = last_id
        /\ last_states' = last_states]_vars

C8_Witness ==
    /\ pc = "scan"
    /\ now > 1
    /\ changes = << >>
    /\ current_states # EmptyStates
    /\ last_states = current_states

\* C9 (as claimed): no I/O or store error of a tick ends the watch session; it
\* ends by cancellation alone.
C9_OnlyCancellationEnds == ~Running => pc = "stopped"

\* C10 (as claimed): when the write of a sync fails, or the loop is cancelled
\* during it, the document on disk is the document as it was read before the
\* sync.
C10_FailedWriteLeavesDocument ==
    [][(pc \in {"write", "write_data"} /\ ~Running')
        => document' = existing_content]_vars

\* ------------------------------------------------- claims: the history store
Min(a, b) == IF a < b THEN a ELSE b

RowIds(rows) == {rows[i].id : i \in 1..Len(rows)}

\* new is what a trim to n rows leaves of old: the rows kept are rows of old,
\* as many as n allows, and no row that went is newer than a row that stayed.
TrimmedTo(old, new, n) ==
    /\ Len(new) = Min(Len(old), n)
    /\ \A i \in 1..Len(new) : \E j \in 1..Len(old) : new[i] = old[j]
    /\ \A j \in 1..Len(old) : \A i \in 1..Len(new) :
          old[j].id \notin RowIds(new) => old[j].timestamp <= new[i].timestamp

\* C11: after cleanup_old_entries(conn, N) each of the two tables holds at most
\* N rows, and they are its N most recent: no deleted row has a later timestamp
\* than a retained row of the same table.
C11_RetentionBound ==
    [][result'.call = "cleanup_old_entries" =>
        /\ TrimmedTo(file_changes, file_changes', result'.arg)
        /\ TrimmedTo(operations, operations', result'.arg)]_vars

C11_Witness ==
    /\ result.call = "cleanup_old_entries"
    /\ result.arg = 1
    /\ last_id >= 2
    /\ Len(file_changes) = 1
    /\ file_changes[1].id < last_id
    /\ last_op_id >= 1
    /\ Len(operations) = 1

\* C12: get_combined_history(conn, limit) returns min(limit, total) rows of the
\* two tables together, each once, sorted non-increasing by timestamp across
\* the tables, and no row left out is newer than a row returned.
InStore(r) ==
    IF r.category = "file"
    THEN \E i \in 1..Len(file_changes) : r = AsFile(file_changes[i])
    ELSE \E i \in 1..Len(operations) : r = AsOperation(operations[i])

Returned(category, id) ==
    \E i \in 1..Len(result.rows) :
        result.rows[i].category = category /\ result.rows[i].id = id

C12_CombinedMostRecent ==
    result.call = "get_combined_history" =>
        LET rows == result.rows
        IN  /\ Len(rows) = Min(result.arg, Len(file_changes) + Len(operations))
            /\ \A i \in 1..Len(rows) : InStore(rows[i])
            /\ \A i, j \in 1..Len(rows) :
                  i < j => /\ rows[i].timestamp >= rows[j].timestamp
                           /\ ~(rows[i].category = rows[j].category /\ rows[i].id = rows[j].id)
            /\ \A k \in 1..Len(file_changes) : \A i \in 1..Len(rows) :
                  ~Returned("file", file_changes[k].id)
                      => file_changes[k].timestamp <= rows[i].timestamp
            /\ \A k \in 1..Len(operations) : \A i \in 1..Len(rows) :
                  ~Returned("operation", operations[k].id)
                      => operations[k].timestamp <= rows[i].timestamp

C12_Witness ==
    /\ result.call = "get_combined_history"
    /\ Len(result.rows) = 2
    /\ Len(file_changes) + Len(operations) = 3
    /\ result.rows[1].category = "operation"
    /\ result.rows[2].category = "file"
    /\ result.rows[1].timestamp > result.rows[2].timestamp

\* C13 (as claimed): get_recent_changes and get_recent_operations return the
\* limit most recent rows by timestamp descending, a row with the larger id
\* first among equal timestamps, also where the limit cuts through a tie.
Later(a, b) ==
    \/ a.timestamp > b.timestamp
    \/ a.timestamp = b.timestamp /\ a.id > b.id

RecentByTimestampThenId(table) ==
    LET rows == result.rows
    IN  /\ Len(rows) = Min(result.arg, Len(table))
        /\ \A i, j \in 1..Len(rows) : i < j => Later(rows[i], rows[j])
        /\ \A k \in 1..Len(table) : \A i \in 1..Len(rows) :
              table[k].id \notin RowIds(rows) => Later(rows[i], table[k])

C13_TiesByIdDescending ==
    /\ result.call = "get_recent_changes" => RecentByTimestampThenId(file_changes)
    /\ result.call = "get_recent_operations" => RecentByTimestampThenId(operations)

\* C14: an appended row gets an id greater than every id ever given out in its
\* table, also the ids of rows trimmed since; a row that stays keeps its
\* fields; rows leave a table only in cleanup_old_entries.
IssuedIn(table) == {x[2] : x \in {y \in issued : y[1] = table}}

AppendsFresh(table, old, new) ==
    \A i \in 1..Len(new) :
        new[i].id \notin RowIds(old) => \A id \in IssuedIn(table) : new[i].id > id

KeepsRows(old, new) ==
    \A i \in 1..Len(new) : \A j \in 1..Len(old) :
        new[i].id = old[j].id => new[i] = old[j]

C14_IdsGrowRowsFixed ==
    [][/\ AppendsFresh("file_changes", file_changes, file_changes')
       /\ AppendsFresh("operations", operations, operations')
       /\ KeepsRows(file_changes, file_changes')
       /\ KeepsRows(operations, operations')
       /\ (\/ RowIds(file_changes') \cup RowIds(file_changes) # RowIds(file_changes')
           \/ RowIds(operations') \cup RowIds(operations) # RowIds(operations'))
              => result'.call = "cleanup_old_entries"]_vars

C14_Witness ==
    /\ result.call = "log_file_change"
    /\ Len(file_changes) = 1
    /\ file_changes[1].id = 2
    /\ << "file_changes", 1 >> \in issued

\* ------------------------------------------- claims: retention in the loop
\* C15 (as claimed): while the watch loop runs with history enabled, no
\* state of the store that a concurrent reader can observe holds more than
\* history.max_entries file-change records, the states between the appends of
\* a tick and its trim included.
C15_NeverMoreThanMaxEntries ==
    (with_history /\ Running) => Len(file_changes) <= MaxEntries

\* C15 (amended): the bound holds in every state of the running loop outside
\* the appends of a tick; between the first append and the trim the store
\* holds at most max_entries plus the events the tick has appended so far.
C15_BoundedOutsideAppends ==
    (with_history /\ Running) =>
        Len(file_changes) <= MaxEntries + (IF pc = "record" THEN logged ELSE 0)

C15_Witness ==
    /\ with_history
    /\ pc = "generate"
    /\ changes # << >>
    /\ last_id > MaxEntries
    /\ Len(file_changes) = MaxEntries

\* ------------------------------------------------------- claims: the scan
\* A file of the tree that exists, and what the exclude list says of its
\* path: a part equal to a pattern, or a tail of the path string equal to one.
Exists(p) == p \in DOMAIN mtimes /\ mtimes[p] # 0

FullPath(p) == project_path \o parts(p)

Excluded(p) ==
    \E pattern \in exclude_patterns :
        \/ \E i \in 1..Len(FullPath(p)) : FullPath(p)[i] = pattern
        \/ \E k \in 0..Len(str(FullPath(p))) :
              SubSeq(str(FullPath(p)), k + 1, Len(str(FullPath(p)))) = pattern

ReportsDeleted(events, p) == \E i \in 1..Len(events) : events[i] = << "deleted", p >>

\* C16 (as claimed): when the walk of a scan raises at one entry, every other
\* existing, non-excluded file is still in the snapshot of that scan, and the
\* scan yields no deleted event for such a file.
C16_ErrorSwallowedPerEntry ==
    [][(pc = "scan" /\ pc' = "detect") =>
        \A p \in DOMAIN mtimes :
            (Exists(p) /\ ~Excluded(p) /\ p # scan_error') =>
                /\ p \in DOMAIN current_states'
                /\ ~ReportsDeleted(detect_changes(current_states', last_states), p)]_vars

\* C17 (as claimed): after a scan, an existing file is in the snapshot if and
\* only if no part of its path equals an exclude pattern and its path string
\* does not end with one; it is recorded with its modification time, and no
\* event names an excluded file.  The entry whose own stat failed is left out.
C17_RecordedIffNotExcluded ==
    /\ pc # "scan" =>
          \A p \in DOMAIN mtimes :
              (Exists(p) /\ p # scan_error) =>
                  /\ p \in DOMAIN current_states <=> ~Excluded(p)
                  /\ p \in DOMAIN current_states => current_states[p] = mtimes[p]
    /\ \A i \in 1..Len(changes) : ~Excluded(changes[i][2])

\* ------------------------------------------------ claims: the configuration
\* The keys the program reads, as paths into the config.
RecognizedKeys ==
    { << "watch", "paths" >>, << "watch", "exclude" >>, << "history", "db_path" >>,
      << "history", "max_entries" >>, << "reminder", "source" >>,
      << "reminder", "history_limit" >>, << "reminder", "format" >> }

RECURSIVE HasValueAt(_, _)
HasValueAt(value, path) ==
    \/ path = << >>
    \/ /\ value.kind = "dict"
       /\ Head(path) \in DOMAIN value.items
       /\ HasValueAt(value.items[Head(path)], Tail(path))

RECURSIVE ValueAt(_, _)
ValueAt(value, path) ==
    IF path = << >> THEN value ELSE ValueAt(value.items[Head(path)], Tail(path))

\* C18 (as claimed): after load_config of a file that holds a map, every
\* recognized key has a value: the user's where the user wrote one at that
\* key, the default where the user did not mention the key.
C18_EveryRecognizedKeyHasValue ==
    (pc # "load" /\ config_file.state = "parsed" /\ config_file.doc.kind = "dict") =>
        \A path \in RecognizedKeys :
            /\ HasValueAt(config, path)
            /\ ValueAt(config, path) =
                  IF HasValueAt(config_file.doc, path) THEN ValueAt(config_file.doc, path)
                  ELSE ValueAt(DEFAULT_CONFIG, path)

\* C19: with no config file, or a file that cannot be read or parsed or that
\* does not hold a map, load_config returns the defaults, and watch gets from
\* there to its loop without an exception.
Malformed(file) == file.state = "raises" \/ (file.state = "parsed" /\ file.doc.kind # "dict")

C19_DefaultsWhenAbsentOrMalformed ==
    (pc # "load" /\ (config_file.state = "absent" \/ Malformed(config_file))) =>
        /\ config = DEFAULT_CONFIG
        /\ pc # "aborted"

C19_Witness ==
    /\ pc = "scan"
    /\ with_history
    /\ Malformed(config_file)
    /\ config = DEFAULT_CONFIG

\* -------------------------------------------------------- claims: dry run
\* C20: a sync with --dry-run leaves the output document, the modification
\* times of all files (an absent document stays absent) and the history
\* database as they were and prints the merged text; a sync without it
\* leaves merge_with_existing(previous content or empty, generated content)
\* in the output document.
C20_DryRunWritesNothing ==
    [][/\ dry_run' =>
            /\ document' = document
            /\ mtimes' = mtimes
            /\ UNCHANGED storeVars
            /\ \E r \in Regions :
                  console' = merge_with_existing(IF doc_exists THEN document ELSE << >>, r)
       /\ ~dry_run' =>
            /\ mtimes'[OutputPath] # 0
            /\ document' = merge_with_existing(IF doc_exists THEN document ELSE << >>,
                                               regions'[Len(regions')])]_vars

C20_Witness ==
    /\ dry_run
    /\ ~doc_exists
    /\ document = << >>
    /\ console # << >>

\* ------------------------------------------------- claims: scan_project
InIgnoredDir(f) ==
    \E i \in 1..(Len(parts(f)) - 1) : parts(f)[i] \in ignore_dirs

IsEntryPoint(f) == \E i \in 1..Len(context.entry_points) : context.entry_points[i] = f

MatchesEntryPattern(f) ==
    \E k \in 1..Len(entry_patterns(context.project_type)) :
        LET pattern == entry_patterns(context.project_type)[k]
        IN  /\ Len(pattern) <= Len(parts(f))
            /\ \A i \in 1..Len(pattern) :
                  parts(f)[Len(parts(f)) - Len(pattern) + i] = pattern[i]

\* C21 (as claimed): entry_points holds no file below an ignored directory,
\* and it holds every file of the project outside the ignored directories
\* that matches an entry-point pattern of the detected type, however many
\* matching files lie below ignored directories and in whatever order the
\* walk yields them.
C21_OwnEntryPointsListed ==
    pc = "scanned" =>
        /\ \A i \in 1..Len(context.entry_points) : ~InIgnoredDir(context.entry_points[i])
        /\ \A f \in DOMAIN mtimes :
              (mtimes[f] # 0 /\ ~InIgnoredDir(f) /\ MatchesEntryPattern(f)) => IsEntryPoint(f)

\* ------------------------------------------------ claims: order in a tick
\* The positions of a tick that has detected events, up to the end of the write.
BeforeWriteCompletes == {"record", "generate", "read", "write", "write_data"}

\* A row is appended only in the recording loop of a session with history,
\* and it is the next event of this tick.
AppendsFollowDetection ==
    Len(file_changes') > Len(file_changes) =>
        /\ pc = "record" /\ with_history
        /\ logged < Len(changes) /\ logged' = logged + 1
        /\ file_changes'[Len(file_changes')].event_type = changes[logged + 1][1]
        /\ file_changes'[Len(file_changes')].file_path = changes[logged + 1][2]

\* The trim comes after the last append of the tick and before the generation.
TrimFollowsAppends ==
    /\ Len(file_changes') < Len(file_changes) => pc = "record" /\ pc' = "generate"
    /\ (pc = "record" /\ pc' = "generate") =>
          logged = Len(changes) /\ Len(file_changes') <= MaxEntries
    /\ ~with_history => UNCHANGED storeVars

\* Generation, read and merge, write: each after the one before it.
SyncFollowsTrim ==
    /\ new_content' # new_content =>
          /\ pc = "generate" /\ changes # << >>
          /\ with_history => logged = Len(changes) /\ Len(file_changes) <= MaxEntries
    /\ final_content' # final_content =>
          /\ pc = "read"
          /\ final_content' = merge_with_existing(IF doc_exists THEN document ELSE << >>,
                                                  new_content)
    /\ document' # document => pc \in {"write", "write_data"}

\* The stored snapshot is replaced only after the write has completed.
SnapshotFollowsWrite ==
    last_states' # last_states =>
        /\ pc = "commit"
        /\ document = final_content
        /\ last_states' = current_states

\* A tick that ends before its write has completed leaves the stored
\* snapshot, against which its events are detected once more.
StoppedTickKeepsSnapshot ==
    (pc \in BeforeWriteCompletes /\ ~Running') =>
        /\ last_states' = last_states
        /\ detect_changes(current_states, last_states') = changes

\* ... by the next tick: the loop goes on unless it was cancelled.
StoppedTickIsFollowed ==
    (pc \in BeforeWriteCompletes /\ ~Running') => pc' = "stopped"

\* C22 (as claimed): in a tick with events, the events are appended to the
\* history (when enabled), then the history is trimmed, then the document is
\* regenerated, read, merged and written, and only then the stored snapshot is
\* replaced; a tick that stops before the write completes leaves the snapshot,
\* and the next tick detects the same changes again.
C22_TickOrderAndRetry ==
    [][/\ AppendsFollowDetection
       /\ TrimFollowsAppends
       /\ SyncFollowsTrim
       /\ SnapshotFollowsWrite
       /\ StoppedTickKeepsSnapshot
       /\ StoppedTickIsFollowed]_vars

\* ------------------------------------------------- claims: quiescence
\* Nothing but the loop has touched the tree since the stored snapshot was
\* taken: the scan was complete, every file other than the output document is
\* in both snapshots or in neither, with the same modification time, and the
\* output document, which only the loop writes, was in the stored snapshot.
OnlyOwnWritesSinceSnapshot ==
    /\ scan_error = "none"
    /\ OutputPath \in DOMAIN last_states
    /\ \A p \in UserPaths :
          /\ p \in DOMAIN current_states <=> p \in DOMAIN last_states
          /\ p \in DOMAIN current_states => current_states[p] = last_states[p]

\* C23 (as claimed): a tick before which nothing but the loop itself has
\* changed a file under the root detects an empty event set, so that it
\* writes no document and appends no history; the loop's own write of the
\* output document does not start a further sync.
C23_OwnWriteStartsNoSync ==
    [][(pc = "detect" /\ pc' # "detect" /\ Running' /\ OnlyOwnWritesSinceSnapshot) =>
        /\ changes' = << >>
        /\ pc' \notin {"record", "generate"}]_vars

====
